---- MODULE Spec2Model ----
(***************************************************************************)
(* Model of diplomacy/src/scripts/gameparser.py: the schedule loader       *)
(* (Time, TimeList), the deadline query (TimeList.after_deadline), the     *)
(* message parser (Message.__init__) and the corpus walker of __main__.    *)
(* Python strings are TLA+ strings and every string operation is computed  *)
(* character by character, as the Python built-in computes it.             *)
(***************************************************************************)
EXTENDS Integers, Sequences, FiniteSets, TLC

VARIABLES
    files,      \* the .txt log files found by os.walk: a sequence of files, each a sequence of lines
    schedule,   \* the gamehistory file at timepath: a sequence of lines as `for line in f` yields them
    texts,      \* __main__'s texts list
    timelist,   \* __main__'s timelist: None before TimeList(timepath), then the TimeList object
    msgs,       \* __main__'s msgs list, built one Message at a time by the list comprehension
    call,       \* the last direct call of after_deadline: its arguments and what it returned
    resolved,   \* the last run of the "change season if after deadline" step: inputs and outcome
    raised,     \* the exception that ended the run, "" while none was raised
    pc,         \* position of the run: "walk", "load", "parse" or "error"
    cached_Xs,          \* training.py's module global cached_Xs
    cached_Ys,          \* training.py's module global cached_Ys
    cached_ptd,         \* training.py's module global cached_ptd
    cached_binary,      \* training.py's module global cached_binary
    X_validation_set,   \* training.py's module global X_validation_set
    Y_validation_set,   \* training.py's module global Y_validation_set
    loads,      \* how many times the data module's feeds were read (and reshuffled) so far
    calls       \* the _get_xy calls made so far: the arguments and what each returned

\* the state of gameparser.py's run and the state of the training module
parser == <<files, schedule, texts, timelist, msgs, call, resolved, raised, pc>>
training == <<cached_Xs, cached_Ys, cached_ptd, cached_binary,
              X_validation_set, Y_validation_set, loads, calls>>

vars == <<files, schedule, texts, timelist, msgs, call, resolved, raised, pc,
          cached_Xs, cached_Ys, cached_ptd, cached_binary,
          X_validation_set, Y_validation_set, loads, calls>>

---------------------------------------------------------------------------
(* Bounds of the model.                                                    *)

MaxLines == 3       \* lines of a schedule file whose loading is examined
MaxRecords == 3     \* records of a deadline table that is queried
MaxBlocks == 2      \* message blocks of a log file
MaxFileLines == 3   \* lines of a log file whose splitting is examined
YearSpan == 17      \* game years 1900 .. 1900 + YearSpan

---------------------------------------------------------------------------
(* Python values.                                                          *)

None == [type |-> "NoneType"]
PyStr(s) == [type |-> "str", val |-> s]
PyInt(n) == [type |-> "int", val |-> n]
PyBool(b) == [type |-> "bool", val |-> b]
Ok(v) == [ok |-> TRUE, val |-> v]
Raise(e) == [ok |-> FALSE, exc |-> e]

\* Python ==: values of different types (a str and an int) are never equal.
PyEq(a, b) == a.type = b.type /\ a.val = b.val

\* Python truth value of what after_deadline returns: None and False are falsy.
Truthy(v) == v.type = "bool" /\ v.val

---------------------------------------------------------------------------
(* Python str built-ins.                                                   *)

linesep == "\n"

Char(s, i) == SubSeq(s, i, i)

Whitespace == {" ", "\t", "\n", "\r"}
Digits == "0123456789"
UpperCase == "ABCDEFGHIJKLMNOPQRSTUVWXYZ"
LowerCase == "abcdefghijklmnopqrstuvwxyz"

Min(S) == CHOOSE x \in S : \A y \in S : x <= y
Max(S) == CHOOSE x \in S : \A y \in S : x >= y

\* position of the one-character string c in s, 0 when absent
IndexIn(c, s) ==
    LET S == {i \in 1..Len(s) : Char(s, i) = c}
    IN  IF S = {} THEN 0 ELSE Min(S)

IsDigit(c) == IndexIn(c, Digits) # 0
IsUpper(c) == IndexIn(c, UpperCase) # 0
IsLower(c) == IndexIn(c, LowerCase) # 0
IsCased(c) == IsUpper(c) \/ IsLower(c)
LowerChar(c) == IF IsUpper(c) THEN Char(LowerCase, IndexIn(c, UpperCase)) ELSE c
UpperChar(c) == IF IsLower(c) THEN Char(UpperCase, IndexIn(c, LowerCase)) ELSE c

RECURSIVE lower(_)
\* str.lower(), character by character (the string is halved to keep the
\* evaluation shallow)
lower(s) ==
    IF Len(s) <= 1 THEN LowerChar(s)
    ELSE lower(SubSeq(s, 1, Len(s) \div 2)) \o lower(SubSeq(s, Len(s) \div 2 + 1, Len(s)))

\* str.title(): a cased character is upper-cased when the character before
\* it is not cased, lower-cased otherwise
TitleChar(s, i) ==
    IF i > 1 /\ IsCased(Char(s, i - 1)) THEN LowerChar(Char(s, i)) ELSE UpperChar(Char(s, i))

RECURSIVE TitleFrom(_, _, _)
TitleFrom(s, lo, hi) ==
    IF lo > hi THEN ""
    ELSE IF lo = hi THEN TitleChar(s, lo)
    ELSE TitleFrom(s, lo, (lo + hi) \div 2) \o TitleFrom(s, (lo + hi) \div 2 + 1, hi)

title(s) == TitleFrom(s, 1, Len(s))

\* str.strip(): from the first to the last character that is not whitespace
strip(s) ==
    LET S == {i \in 1..Len(s) : Char(s, i) \notin Whitespace}
    IN  IF S = {} THEN "" ELSE SubSeq(s, Min(S), Max(S))

startswith(s, prefix) ==
    Len(s) >= Len(prefix) /\ SubSeq(s, 1, Len(prefix)) = prefix

\* first position where sep occurs in s, 0 when none
Find(s, sep) ==
    LET S == {i \in 1..(Len(s) - Len(sep) + 1) : SubSeq(s, i, i + Len(sep) - 1) = sep}
    IN  IF S = {} THEN 0 ELSE Min(S)

RECURSIVE split(_, _)
\* str.split(sep) with an explicit, non-empty separator: every occurrence of
\* sep cuts, so adjacent separators give empty fields
split(s, sep) ==
    LET k == Find(s, sep)
    IN  IF k = 0 THEN <<s>>
        ELSE <<SubSeq(s, 1, k - 1)>> \o split(SubSeq(s, k + Len(sep), Len(s)), sep)

AllDigits(s) == \A i \in 1..Len(s) : IsDigit(Char(s, i))

RECURSIVE DigitsValue(_, _)
DigitsValue(s, acc) ==
    IF s = "" THEN acc
    ELSE DigitsValue(Tail(s), 10 * acc + (IndexIn(Head(s), Digits) - 1))

\* int(s): surrounding whitespace is ignored, then an optional sign and digits
int(s) ==
    LET t == strip(s)
        signed == t # "" /\ Head(t) \in {"+", "-"}
        d == IF signed THEN Tail(t) ELSE t
    IN  IF d = "" \/ ~AllDigits(d) THEN Raise("ValueError")
        ELSE IF signed /\ Head(t) = "-" THEN Ok(0 - DigitsValue(d, 0))
        ELSE Ok(DigitsValue(d, 0))

\* datetime.strptime(s, "%H:%M"): one or two digits up to 23, a colon, one or
\* two digits up to 59, nothing else.  The date part is always 1900-01-01, so
\* the datetime is modelled by its minute of the day.
strptime(s) ==
    LET k == Find(s, ":")
        h == SubSeq(s, 1, k - 1)
        m == SubSeq(s, k + 1, Len(s))
    IN  IF k = 0 THEN Raise("ValueError")
        ELSE IF ~(Len(h) \in 1..2 /\ AllDigits(h) /\ Len(m) \in 1..2 /\ AllDigits(m))
             THEN Raise("ValueError")
        ELSE IF DigitsValue(h, 0) > 23 \/ DigitsValue(m, 0) > 59 THEN Raise("ValueError")
        ELSE Ok(DigitsValue(h, 0) * 60 + DigitsValue(m, 0))

RECURSIVE join(_, _)
\* sep.join(list)
join(sep, list) ==
    IF list = <<>> THEN ""
    ELSE IF Len(list) = 1 THEN list[1]
    ELSE list[1] \o sep \o join(sep, Tail(list))

RECURSIVE Repeat(_, _)
\* c * n
Repeat(c, n) ==
    IF n = 0 THEN ""
    ELSE IF n = 1 THEN c
    ELSE Repeat(c, n \div 2) \o Repeat(c, n - n \div 2)

---------------------------------------------------------------------------
(* Time and TimeList: the deadline table.                                  *)

ShortBody == 50

\* Time.__init__: the stripped line is cut at every single space and must
\* unpack into exactly 9 fields; the 8th is parsed as %H:%M.
Time(line) ==
    LET f == split(strip(line), " ")
    IN  IF Len(f) # 9 THEN Raise("ValueError")
        ELSE LET t == strptime(f[8])
             IN  IF ~t.ok THEN Raise("ValueError")
                 ELSE Ok([season |-> f[1], year |-> f[2], phase |-> f[3], time |-> t.val])

\* Kept without the test for "Fall 1905 Retreat"
KeptRetreat(line) ==
    /\ strip(line) # ""
    /\ strip(line) # "Winter 1900"

\* the condition of the list comprehension of TimeList.__init__
Kept(line) ==
    /\ strip(line) # ""
    /\ strip(line) # "Winter 1900"
    /\ strip(line) # "Fall 1905 Retreat"

RECURSIVE TimesOf(_)
\* [Time(line) for line in f if ...]: the first line that raises ends the load
TimesOf(lines) ==
    IF lines = <<>> THEN Ok(<<>>)
    ELSE IF ~Kept(Head(lines)) THEN TimesOf(Tail(lines))
    ELSE LET t == Time(Head(lines))
         IN  IF ~t.ok THEN t
             ELSE LET rest == TimesOf(Tail(lines))
                  IN  IF ~rest.ok THEN rest ELSE Ok(<<t.val>> \o rest.val)

\* TimeList.__init__: self.times
TimeList(lines) == TimesOf(lines)

\* Matches without the test of the phase
MatchesAnyPhase(t, season, year) ==
    /\ PyEq(PyStr(t.season), season)
    /\ PyEq(PyStr(t.year), year)

\* line 38: the record is the one the query is about
Matches(t, season, year) ==
    /\ PyEq(PyStr(t.season), season)
    /\ PyEq(PyStr(t.year), year)
    /\ t.phase = "Orders"

\* Verdict with the tie decided by len(msg) <= 50
VerdictTieAtFifty(time, deadline, msg) ==
    IF time < deadline THEN PyBool(FALSE)
    ELSE IF time = deadline
         THEN IF Len(msg) <= ShortBody THEN PyBool(TRUE) ELSE PyBool(FALSE)
    ELSE PyBool(TRUE)

\* Verdict with the length rule applied up to the deadline, not only at it
VerdictLengthBefore(time, deadline, msg) ==
    IF time <= deadline
    THEN IF Len(msg) < ShortBody THEN PyBool(TRUE) ELSE PyBool(FALSE)
    ELSE PyBool(TRUE)

\* lines 39-49: what the matching record makes the query return
Verdict(time, deadline, msg) ==
    IF time < deadline THEN PyBool(FALSE)
    ELSE IF time = deadline
         THEN IF Len(msg) < ShortBody THEN PyBool(TRUE) ELSE PyBool(FALSE)
    ELSE PyBool(TRUE)

RECURSIVE after_deadline(_, _, _, _, _)
\* TimeList.after_deadline: season and year are Python values, time a
\* datetime, msg a str.  The first matching record returns; falling off the
\* loop returns None.
after_deadline(times, season, year, time, msg) ==
    IF times = <<>> THEN None
    ELSE IF Matches(Head(times), season, year)
         THEN Verdict(time, Head(times).time, msg)
         ELSE after_deadline(Tail(times), season, year, time, msg)

---------------------------------------------------------------------------
(* Message: the parser of one raw block.                                   *)

RECURSIVE FirstLineLatest(_, _, _)
\* FirstLine that keeps looking and returns the last line that starts with
\* prefix
FirstLineLatest(txt, prefix, i) ==
    IF i > Len(txt) THEN 0
    ELSE LET later == FirstLineLatest(txt, prefix, i + 1)
         IN  IF later # 0 THEN later
             ELSE IF startswith(lower(txt[i]), prefix) THEN i
             ELSE 0

RECURSIVE FirstLine(_, _, _)
\* index of the first line of txt at or after i whose lower-cased text
\* starts with prefix, 0 when next() would raise StopIteration
FirstLine(txt, prefix, i) ==
    IF i > Len(txt) THEN 0
    ELSE IF startswith(lower(txt[i]), prefix) THEN i
    ELSE FirstLine(txt, prefix, i + 1)

\* ChangeSeason with the season replaced before the year is computed
ChangeSeasonSeasonFirst(season, year, after) ==
    IF Truthy(after)
    THEN LET s == IF season = "Spring" THEN "Fall" ELSE "Spring"
         IN  [year |-> IF s = "Fall" THEN year + 1 ELSE year, season |-> s]
    ELSE [year |-> year, season |-> season]

\* "Change season if after deadline": the year moves on only from Fall, and
\* is computed before the season is replaced.
ChangeSeason(season, year, after) ==
    IF Truthy(after)
    THEN [year |-> IF season = "Fall" THEN year + 1 ELSE year,
          season |-> IF season = "Spring" THEN "Fall" ELSE "Spring"]
    ELSE [year |-> year, season |-> season]

\* Message.__init__(txt, timelist), timelist given by its times
Message(raw, times) ==
    LET txt == split(raw, linesep)
        fi == FirstLine(txt, "from:", 1)
        di == FirstLine(txt, "date:", 1)
        ci == FirstLine(txt, "cc:", 1)
    IN  IF fi = 0 \/ di = 0 \/ ci = 0 THEN Raise("StopIteration")
        ELSE
        LET from_line == txt[fi]
            date_line == txt[di]
            to_line == txt[ci]
            to_line_index == ci
            msg_body == join(linesep, SubSeq(txt, to_line_index + 1, Len(txt)))
            fromParts == split(from_line, "From:")
            dateParts == split(date_line, "Date:")
            toParts == split(to_line, "CC:")
        IN  IF Len(fromParts) < 2 \/ Len(dateParts) < 2 THEN Raise("IndexError")
            ELSE
            LET from_ == title(lower(strip(fromParts[2])))
                date == strip(dateParts[2])
                dateTokens == split(date, " ")
                year == int(dateTokens[Len(dateTokens)])
            IN  IF ~year.ok THEN Raise("ValueError")
                ELSE IF Len(dateTokens) < 2 \/ Len(toParts) < 2 THEN Raise("IndexError")
                ELSE
                LET season == dateTokens[Len(dateTokens) - 1]
                    to == title(lower(strip(toParts[2])))
                    message == strip(msg_body)
                    lineTokens == split(date_line, " ")
                IN  IF Len(lineTokens) < 5 THEN Raise("IndexError")
                    ELSE
                    LET time == strptime(lineTokens[5])
                    IN  IF ~time.ok THEN Raise("ValueError")
                        ELSE
                        LET after == after_deadline(times, PyStr(season), PyInt(year.val),
                                                    time.val, message)
                            phase == ChangeSeason(season, year.val, after)
                        IN  Ok([from_ |-> from_, to |-> to, season |-> phase.season,
                                year |-> phase.year, time |-> time.val,
                                message |-> message])

---------------------------------------------------------------------------
(* __main__: the corpus walker.                                            *)

Separator == "============="

RECURSIVE Blocks(_, _)
\* the inner loop over one file: s collects the lines since the last
\* separator line; what is left in s when the file ends is dropped
Blocks(lines, s) ==
    IF lines = <<>> THEN <<>>
    ELSE IF startswith(Head(lines), Separator)
         THEN <<s>> \o Blocks(Tail(lines), "")
         ELSE Blocks(Tail(lines), s \o Head(lines) \o linesep)

RECURSIVE Texts(_)
\* the outer loop over filepaths: s starts empty for every file
Texts(fs) == IF fs = <<>> THEN <<>> ELSE Blocks(Head(fs), "") \o Texts(Tail(fs))

---------------------------------------------------------------------------
(* Inputs: schedule lines and message blocks.                              *)

LineFall04 == "Fall 1904 Orders Mon Oct 7 1904 16:45 UTC\n"
LineFall04Late == "Fall 1904 Orders Tue Oct 8 1904 09:30 UTC\n"
LineFall04Retreat == "Fall 1904 Retreat Mon Oct 7 1904 16:10 UTC\n"
LineFall04Builds == "Fall 1904 Builds Tue Oct 8 1904 18:20 UTC\n"
LineSpring04 == "Spring 1904 Orders Mon Apr 1 1904 12:00 UTC\n"
LineWinter == "Winter 1900\n"
LineRetreat05 == "  Fall 1905 Retreat\n"
LineBlank == "  \n"
LineEmpty == "\n"
LineShort == "Fall 1904 Orders\n"
LineTwoSpaces == "Fall 1904 Orders Mon Oct  7 1904 16:45 UTC\n"
LineTab == "Fall 1904 Orders Mon Oct\t7 1904 1904 16:45 UTC\n"
LineBadTime == "Fall 1904 Orders Mon Oct 7 1904 16:60 UTC\n"
LineTimeFirst == "Fall 1904 Orders Mon Oct 7 16:45 1904 UTC\n"

SeqsUpTo(S, n) == UNION {[1..k -> S] : k \in 0..n}

\* schedule files whose loading is examined: filtered, well-formed and
\* malformed lines in any order
LoadLines ==
    {LineFall04, LineFall04Retreat, LineSpring04, LineWinter, LineRetreat05,
     LineBlank, LineEmpty, LineShort, LineTwoSpaces, LineTab, LineBadTime,
     LineTimeFirst}
LoadSchedules == SeqsUpTo(LoadLines, MaxLines)

\* deadline tables that are queried: well-formed records, several of them
\* for the same season and year
QueryLines ==
    {LineFall04, LineFall04Late, LineFall04Retreat, LineFall04Builds, LineSpring04}
QuerySchedules == SeqsUpTo(QueryLines, MaxRecords)

\* schedules of whole runs
RunSchedules ==
    { <<LineWinter, LineSpring04, LineFall04, LineFall04Retreat>>,
      <<LineFall04, LineRetreat05>>,
      <<LineTimeFirst>> }

BlockLines(from, date, cc, body) ==
    from \o date \o cc \o <<body \o "\n">>

FromLine == <<"From: ALICE smith\n">>
CcLine == <<"CC: bob\n">>
DateLine(d) == <<"Date: " \o d \o "\n">>

BlockChoices ==
    { BlockLines(FromLine, DateLine("Mon Oct 7 16:53 1904 Fall 1904"), CcLine, Repeat("x", 80)),
      BlockLines(FromLine, DateLine("Mon Oct 7 16:44 1904 Fall 1904"), CcLine, "ok"),
      BlockLines(FromLine, DateLine("Mon Oct 7 16:45 1904 Fall 1904"), CcLine, Repeat("x", 49)),
      BlockLines(FromLine, DateLine("Mon Oct 7 16:45 1904 Fall 1904"), CcLine, Repeat("x", 50)),
      BlockLines(FromLine, DateLine("Mon Apr 1 12:30 1904 Spring 1904"), CcLine, "ok"),
      BlockLines(FromLine, DateLine("Mon Oct 7 16:53 1905 Fall 1905"), CcLine, "ok"),
      BlockLines(FromLine, DateLine("Mon Oct 7 16:53 1904 Fall 1904"), <<>>, "ok"),
      BlockLines(<<>>, DateLine("Mon Oct 7 16:53 1904 Fall 1904"), CcLine, "ok"),
      BlockLines(FromLine, <<>>, CcLine, "ok") }

SeparatorLine == "==================\n"

RECURSIVE FileOf(_)
\* a log file: every message block is followed by a separator line
FileOf(blocks) ==
    IF blocks = <<>> THEN <<>>
    ELSE Head(blocks) \o <<SeparatorLine>> \o FileOf(Tail(blocks))

Corpora == { <<FileOf(bs)>> : bs \in SeqsUpTo(BlockChoices, MaxBlocks) }

\* blocks whose body holds several lines, header-like lines among them, and
\* blocks whose CC: line is written in lower case or comes first
TieDate == DateLine("Mon Oct 7 16:45 1904 Fall 1904")

BodyChoices ==
    { FromLine \o TieDate \o CcLine \o <<"hello\n", "CC: carol\n", "bye\n">>,
      FromLine \o TieDate \o CcLine \o <<"From: dave\n", "Date: Tue Oct 8 10:00 1905 Spring 1905\n">>,
      CcLine \o FromLine \o TieDate \o <<"  late header  \n">>,
      FromLine \o TieDate \o <<"cc: see CC: bob\n", "text\n", "cc: more\n">>,
      FromLine \o TieDate \o <<"cc: bob\n", "CC: carol\n", "text\n">>,
      FromLine \o TieDate \o CcLine,
      <<"preamble\n">> \o FromLine \o TieDate \o CcLine \o <<Repeat("x", 49) \o "\n", "\n", " \n">> }

BodyCorpora == { <<FileOf(bs)>> : bs \in SeqsUpTo(BodyChoices, MaxBlocks) }

\* log files whose splitting is examined: message lines and separator lines
\* in any order, so that a file may start with a separator, double one, or
\* end without one; one file or two
WalkLines == {"hello\n", "bye\n", "=============\n"}
WalkFilesOf == SeqsUpTo(WalkLines, MaxFileLines)
WalkCorpora == {<<f>> : f \in WalkFilesOf} \cup {<<f, g>> : f \in WalkFilesOf, g \in WalkFilesOf}

\* arguments of direct calls of after_deadline
CallSeasons == {PyStr("Fall"), PyStr("Spring")}
CallYears == {PyStr("1904"), PyInt(1904), PyStr("1905")}
CallTimes == {strptime("09:30").val, strptime("12:00").val, strptime("16:44").val,
              strptime("16:45").val, strptime("16:46").val}
CallMsgs == {"", Repeat("x", 49), Repeat("x", 50), Repeat("x", 80)}

\* what the "change season" step can be given
Seasons == {"Spring", "Fall", "Winter"}
Years == 1900 .. (1900 + YearSpan)
Verdicts == {PyBool(TRUE), PyBool(FALSE), None}

---------------------------------------------------------------------------
(* Steps of a run.                                                         *)

\* __main__, lines 121-131: texts
WalkFiles ==
    /\ pc = "walk"
    /\ texts' = Texts(files)
    /\ pc' = "load"
    /\ UNCHANGED <<files, schedule, timelist, msgs, call, resolved, raised>>
    /\ UNCHANGED training

\* timelist = TimeList(timepath); an exception of a line ends the run
TimeListInit ==
    /\ pc = "load"
    /\ LET r == TimeList(schedule)
       IN  IF r.ok
           THEN /\ timelist' = [type |-> "TimeList", times |-> r.val]
                /\ pc' = "parse"
                /\ raised' = raised
           ELSE /\ timelist' = timelist
                /\ pc' = "error"
                /\ raised' = r.exc
    /\ UNCHANGED <<files, schedule, texts, msgs, call, resolved>>
    /\ UNCHANGED training

\* MessageNext with the exception swallowed: an empty Message stands in for
\* the block and the run goes on
MessageNextSwallow ==
    /\ pc = "parse"
    /\ Len(msgs) < Len(texts)
    /\ LET m == Message(texts[Len(msgs) + 1], timelist.times)
       IN  msgs' = Append(msgs, IF m.ok THEN m.val ELSE None)
    /\ UNCHANGED <<files, schedule, texts, timelist, call, resolved, pc, raised>>
    /\ UNCHANGED training

\* MessageNext with a query that drops the records it has scanned
MessageNextConsuming ==
    /\ pc = "parse"
    /\ Len(msgs) < Len(texts)
    /\ LET m == Message(texts[Len(msgs) + 1], timelist.times)
       IN  IF m.ok
           THEN /\ msgs' = Append(msgs, m.val)
                /\ timelist' = [timelist EXCEPT !.times = <<>>]
                /\ UNCHANGED <<pc, raised>>
           ELSE /\ msgs' = msgs
                /\ timelist' = timelist
                /\ pc' = "error"
                /\ raised' = m.exc
    /\ UNCHANGED <<files, schedule, texts, call, resolved>>
    /\ UNCHANGED training

\* one iteration of msgs = [Message(t, timelist) for t in texts]; an
\* exception leaves the comprehension, and no Message is added
MessageNext ==
    /\ pc = "parse"
    /\ Len(msgs) < Len(texts)
    /\ LET m == Message(texts[Len(msgs) + 1], timelist.times)
       IN  IF m.ok
           THEN /\ msgs' = Append(msgs, m.val)
                /\ UNCHANGED <<pc, raised>>
           ELSE /\ msgs' = msgs
                /\ pc' = "error"
                /\ raised' = m.exc
    /\ UNCHANGED <<files, schedule, texts, timelist, call, resolved>>
    /\ UNCHANGED training

\* a caller's timelist.after_deadline(season, year, time, msg)
AfterDeadlineCall ==
    /\ pc = "parse"
    /\ \E season \in CallSeasons, year \in CallYears, time \in CallTimes, msg \in CallMsgs :
         call' = [season |-> season, year |-> year, time |-> time, msg |-> msg,
                  result |-> after_deadline(timelist.times, season, year, time, msg)]
    /\ UNCHANGED <<files, schedule, texts, timelist, msgs, resolved, raised, pc>>
    /\ UNCHANGED training

\* Message.__init__, lines 70-73, on a season, a year and what
\* after_deadline returned
ChangeSeasonStep ==
    /\ pc = "parse"
    /\ \E season \in Seasons, year \in Years, after \in Verdicts :
         resolved' = [season |-> season, year |-> year, after |-> after,
                      out |-> ChangeSeason(season, year, after)]
    /\ UNCHANGED <<files, schedule, texts, timelist, msgs, call, raised, pc>>
    /\ UNCHANGED training

---------------------------------------------------------------------------
(* Specifications.                                                         *)

----------------------------------------------------------------------------
(* training.py: the dataset cache of _get_xy.                              *)

MaxCalls == 3   \* calls of _get_xy in one run

\* values of path_to_data: the default None and two data directories
Paths == {None, PyStr("a"), PyStr("b")}

\* The data module's feeds, as far as _get_xy can tell them apart: what was
\* asked for.  get_Y_feed is handed the X feed only to label it.
get_X_feed(path_to_data, upsample) ==
    [feed |-> "X", path |-> path_to_data, upsample |-> upsample]
get_Y_feed_binary(path_to_data, upsample) ==
    [feed |-> "Y_binary", path |-> path_to_data, upsample |-> upsample]
get_Y_feed(Xs, path_to_data, upsample) ==
    [feed |-> "Y", path |-> path_to_data, upsample |-> upsample]

\* The split the data module held back while the feeds of one load were read.
get_validation_set(path_to_data, binary, upsample) ==
    << [type |-> "ndarray", held |-> "X", path |-> path_to_data, upsample |-> upsample],
       [type |-> "ndarray", held |-> "Y", path |-> path_to_data, binary |-> binary,
        upsample |-> upsample] >>

\* np.array of a feed, put in the order of the n-th random.shuffle of the run:
\* the generator is seeded once at import, so every load has its own order.
Shuffled(feed, n) == [type |-> "ndarray", rows |-> feed, shuffle |-> n]

\* what the else branch of _get_xy computes as Xs, Ys on the n-th load
LoadXs(path_to_data, upsample, n) == Shuffled(get_X_feed(path_to_data, upsample), n)
LoadYs(path_to_data, binary, upsample, n) ==
    Shuffled(IF binary THEN get_Y_feed_binary(path_to_data, upsample)
             ELSE get_Y_feed(get_X_feed(path_to_data, upsample), path_to_data, upsample), n)

\* one returned call, as the caller sees it; load is 0 when no feed was read
Returned(path_to_data, binary, upsample, n, Xs, Ys) ==
    [path |-> path_to_data, binary |-> binary, upsample |-> upsample,
     load |-> n, Xs |-> Xs, Ys |-> Ys]

\* _get_xy without the "Only cache upsampled data" test
get_xy_always_cache(path_to_data, binary, upsample) ==
    /\ Len(calls) < MaxCalls
    /\ IF /\ cached_Xs # None /\ cached_Ys # None /\ cached_ptd = path_to_data
          /\ cached_binary = binary /\ upsample
       THEN /\ calls' = Append(calls, Returned(path_to_data, binary, upsample, 0,
                                                cached_Xs, cached_Ys))
            /\ UNCHANGED <<cached_Xs, cached_Ys, cached_ptd, cached_binary,
                           X_validation_set, Y_validation_set, loads>>
       ELSE LET n == loads + 1
                Xs == LoadXs(path_to_data, upsample, n)
                Ys == LoadYs(path_to_data, binary, upsample, n)
                held == get_validation_set(path_to_data, binary, upsample)
            IN  /\ loads' = n
                /\ X_validation_set' = held[1]
                /\ Y_validation_set' = held[2]
                /\ cached_Xs' = Xs
                /\ cached_Ys' = Ys
                /\ cached_ptd' = path_to_data
                /\ cached_binary' = binary
                /\ calls' = Append(calls, Returned(path_to_data, binary, upsample, n, Xs, Ys))
    /\ UNCHANGED parser

\* _get_xy(path_to_data, binary, upsample)
get_xy(path_to_data, binary, upsample) ==
    /\ Len(calls) < MaxCalls
    /\ IF /\ cached_Xs # None /\ cached_Ys # None /\ cached_ptd = path_to_data
          /\ cached_binary = binary /\ upsample
       THEN /\ calls' = Append(calls, Returned(path_to_data, binary, upsample, 0,
                                                cached_Xs, cached_Ys))
            /\ UNCHANGED <<cached_Xs, cached_Ys, cached_ptd, cached_binary,
                           X_validation_set, Y_validation_set, loads>>
       ELSE LET n == loads + 1
                Xs == LoadXs(path_to_data, upsample, n)
                Ys == LoadYs(path_to_data, binary, upsample, n)
                held == get_validation_set(path_to_data, binary, upsample)
            IN  /\ loads' = n
                /\ X_validation_set' = held[1]
                /\ Y_validation_set' = held[2]
                /\ IF upsample
                   THEN /\ cached_Xs' = Xs
                        /\ cached_Ys' = Ys
                        /\ cached_ptd' = path_to_data
                        /\ cached_binary' = binary
                   ELSE UNCHANGED <<cached_Xs, cached_Ys, cached_ptd, cached_binary>>
                /\ calls' = Append(calls, Returned(path_to_data, binary, upsample, n, Xs, Ys))
    /\ UNCHANGED parser

\* training.py as imported: its module globals before any call
Imported ==
    /\ cached_Xs = None
    /\ cached_Ys = None
    /\ cached_ptd = None
    /\ cached_binary = TRUE
    /\ X_validation_set = None
    /\ Y_validation_set = None
    /\ loads = 0
    /\ calls = <<>>

Fresh ==
    /\ texts = <<>>
    /\ timelist = None
    /\ msgs = <<>>
    /\ call = None
    /\ resolved = None
    /\ raised = ""
    /\ Imported

\* a whole run of __main__
Init ==
    /\ files \in Corpora
    /\ schedule \in RunSchedules
    /\ Fresh
    /\ pc = "walk"

Next == WalkFiles \/ TimeListInit \/ MessageNext

Spec == Init /\ [][Next]_vars

\* loading a schedule file
InitLoad ==
    /\ files = <<>>
    /\ schedule \in LoadSchedules
    /\ Fresh
    /\ pc = "load"

NextLoad == TimeListInit

SpecLoad == InitLoad /\ [][NextLoad]_vars

\* loading a well-formed schedule and querying it
InitQuery ==
    /\ files = <<>>
    /\ schedule \in QuerySchedules
    /\ Fresh
    /\ pc = "load"

NextQuery == TimeListInit \/ AfterDeadlineCall

SpecQuery == InitQuery /\ [][NextQuery]_vars

\* the change-season step of the parser on every outcome of the query
InitResolve ==
    /\ files = <<>>
    /\ schedule = <<>>
    /\ Fresh
    /\ pc = "load"

NextResolve == TimeListInit \/ ChangeSeasonStep

SpecResolve == InitResolve /\ [][NextResolve]_vars

\* a run over blocks with many-lined bodies
InitBody ==
    /\ files \in BodyCorpora
    /\ schedule = <<LineWinter, LineFall04>>
    /\ Fresh
    /\ pc = "walk"

NextBody == WalkFiles \/ TimeListInit \/ MessageNext

SpecBody == InitBody /\ [][NextBody]_vars

\* splitting log files into blocks
InitWalk ==
    /\ files \in WalkCorpora
    /\ schedule = <<LineFall04>>
    /\ Fresh
    /\ pc = "walk"

NextWalk == WalkFiles \/ TimeListInit

SpecWalk == InitWalk /\ [][NextWalk]_vars

\* callers of the training module: any sequence of _get_xy calls
InitTrain ==
    /\ files = <<>>
    /\ schedule = <<>>
    /\ Fresh
    /\ pc = "walk"

NextTrain ==
    \E path_to_data \in Paths, binary \in BOOLEAN, upsample \in BOOLEAN :
        get_xy(path_to_data, binary, upsample)

SpecTrain == InitTrain /\ [][NextTrain]_vars

---------------------------------------------------------------------------
(* What the claims speak of.                                               *)

\* the lines of a raw block
LinesOf(raw) == split(raw, linesep)

\* the block has a line starting, in any case, with the header name
HasHeader(raw, prefix) ==
    \E i \in 1..Len(LinesOf(raw)) : startswith(lower(LinesOf(raw)[i]), prefix)

\* the season and year as stated at the end of the block's Date: header
Nominal(raw) ==
    LET ls == LinesOf(raw)
        d == Min({i \in 1..Len(ls) : startswith(lower(ls[i]), "date:")})
        tokens == split(strip(ls[d]), " ")
    IN  [season |-> tokens[Len(tokens) - 1], year |-> int(tokens[Len(tokens)]).val]

\* position of the first Orders record of the table for a season and a year
\* given as a number, 0 when the table has none
OrdersIndex(times, season, year) ==
    LET S == {i \in 1..Len(times) :
                /\ times[i].season = season
                /\ int(times[i].year) = Ok(year)
                /\ times[i].phase = "Orders"}
    IN  IF S = {} THEN 0 ELSE Min(S)

\* position of the first Orders record the arguments of the last direct
\* call are equal to, 0 when there is none
CallIndex ==
    LET S == {i \in 1..Len(timelist.times) :
                /\ PyEq(PyStr(timelist.times[i].season), call.season)
                /\ PyEq(PyStr(timelist.times[i].year), call.year)
                /\ timelist.times[i].phase = "Orders"}
    IN  IF S = {} THEN 0 ELSE Min(S)

CallDeadline == timelist.times[CallIndex].time

\* the block lacks one of the three header lines
LacksHeader(raw) ==
    ~HasHeader(raw, "from:") \/ ~HasHeader(raw, "date:") \/ ~HasHeader(raw, "cc:")

\* positions where a whitespace-separated token of s starts
TokenStarts(s) ==
    {i \in 1..Len(s) : Char(s, i) \notin Whitespace
                       /\ (i = 1 \/ Char(s, i - 1) \in Whitespace)}

\* the k-th whitespace-separated token of s
Token(s, k) ==
    LET start == CHOOSE i \in TokenStarts(s) :
                    Cardinality({j \in TokenStarts(s) : j <= i}) = k
        stops == {j \in start..Len(s) : Char(s, j) \in Whitespace}
    IN  SubSeq(s, start, IF stops = {} THEN Len(s) ELSE Min(stops) - 1)

NineTokens(line) == Cardinality(TokenStarts(line)) = 9
RecordShaped(line) == NineTokens(line) /\ strptime(Token(line, 8)).ok
RecordOf(line) ==
    [season |-> Token(line, 1), year |-> Token(line, 2), phase |-> Token(line, 3),
     time |-> strptime(Token(line, 8)).val]

\* the line is one the loader is to skip
Skipped(line) == strip(line) \in {"", "Winter 1900", "Fall 1905 Retreat"}
NotSkipped(line) == ~Skipped(line)

\* positions of raw where a line starts
LineStarts(raw) == {p \in 1..Len(raw) : p = 1 \/ Char(raw, p - 1) = linesep}

\* where the first line starting, in any case, with "cc:" starts
Boundary(raw) ==
    Min({p \in LineStarts(raw) : p + 2 <= Len(raw) /\ lower(SubSeq(raw, p, p + 2)) = "cc:"})

\* the text of raw after the end of the boundary line, trimmed
BodyAfterBoundary(raw) ==
    LET ends == {q \in Boundary(raw)..Len(raw) : Char(raw, q) = linesep}
    IN  IF ends = {} THEN "" ELSE strip(SubSeq(raw, Min(ends) + 1, Len(raw)))

\* the line separates message blocks: it starts with 13 or more "="
IsSeparator(line) == Len(line) >= 13 /\ SubSeq(line, 1, 13) = Repeat("=", 13)

RECURSIVE MessageBlocks(_, _)
\* the message blocks of a file, in order: the maximal runs of lines
\* between separator lines, the run after the last separator included
MessageBlocks(lines, run) ==
    LET done == IF run = <<>> THEN <<>> ELSE <<run>>
    IN  IF lines = <<>> THEN done
        ELSE IF IsSeparator(Head(lines)) THEN done \o MessageBlocks(Tail(lines), <<>>)
        ELSE MessageBlocks(Tail(lines), Append(run, Head(lines)))

RECURSIVE BlockText(_)
\* a block as the walker hands it on: each line followed by the separator
\* of lines
BlockText(block) ==
    IF block = <<>> THEN "" ELSE Head(block) \o linesep \o BlockText(Tail(block))

RECURSIVE AllBlocks(_)
\* the message blocks of the files, file by file
AllBlocks(fs) ==
    IF fs = <<>> THEN <<>> ELSE MessageBlocks(Head(fs), <<>>) \o AllBlocks(Tail(fs))

---------------------------------------------------------------------------
(* C1: every message parsed from a block whose nominal season and year     *)
(* have an Orders record in the loaded schedule carries a season/year      *)
(* different from the nominal ones exactly when it was sent strictly after *)
(* that deadline, or at it with a body shorter than 50 characters.         *)
C1_EndToEnd ==
    \A i \in 1..Len(msgs) :
        LET nominal == Nominal(texts[i])
            k == OrdersIndex(timelist.times, nominal.season, nominal.year)
            m == msgs[i]
        IN  k # 0 =>
              ((m.season # nominal.season \/ m.year # nominal.year)
               <=> \/ m.time > timelist.times[k].time
                   \/ (m.time = timelist.times[k].time /\ Len(m.message) < ShortBody))

---------------------------------------------------------------------------
(* C2: when after_deadline returned True the change-season step moves      *)
(* (Spring, y) to (Fall, y) and (Fall, y) to (Spring, y + 1); when it      *)
(* returned False or None the season and year stay as given; the year      *)
(* never changes while the season stays, and never by more than one.       *)
C2_OnePhase ==
    resolved # None =>
        LET r == resolved
        IN  /\ (r.after = PyBool(TRUE) /\ r.season = "Spring")
                 => r.out = [season |-> "Fall", year |-> r.year]
            /\ (r.after = PyBool(TRUE) /\ r.season = "Fall")
                 => r.out = [season |-> "Spring", year |-> r.year + 1]
            /\ r.after # PyBool(TRUE)
                 => r.out = [season |-> r.season, year |-> r.year]
            /\ r.out.season = r.season => r.out.year = r.year
            /\ r.out.year \in {r.year, r.year + 1}

C2_Advanced ==
    /\ resolved # None
    /\ resolved.after = PyBool(TRUE)
    /\ resolved.season = "Fall"
    /\ resolved.out = [season |-> "Spring", year |-> resolved.year + 1]

---------------------------------------------------------------------------
(* C3: a direct call whose time equals the deadline of the first matching  *)
(* Orders record returns True when the body is shorter than 50 characters  *)
(* and False when it has 50 characters or more.                            *)
C3_TieBreak ==
    (call # None /\ CallIndex # 0 /\ call.time = CallDeadline) =>
        call.result = PyBool(Len(call.msg) < ShortBody)

C3_TieAtFifty ==
    /\ call # None
    /\ CallIndex # 0
    /\ call.time = CallDeadline
    /\ Len(call.msg) = ShortBody
    /\ call.result = PyBool(FALSE)

---------------------------------------------------------------------------
(* C4: a direct call whose time is strictly before the deadline of the     *)
(* first matching Orders record returns False, and one whose time is       *)
(* strictly after it returns True, whatever the length of the body.        *)
C4_OffDeadline ==
    (call # None /\ CallIndex # 0) =>
        /\ call.time < CallDeadline => call.result = PyBool(FALSE)
        /\ call.time > CallDeadline => call.result = PyBool(TRUE)

C4_ShortBefore ==
    /\ call # None
    /\ CallIndex # 0
    /\ call.time < CallDeadline
    /\ Len(call.msg) < ShortBody
    /\ call.result = PyBool(FALSE)

---------------------------------------------------------------------------
(* C5: what a direct call returns is what a table holding only the first   *)
(* matching Orders record returns: records of other phases and later       *)
(* Orders records for the same season and year change nothing.             *)
C5_FirstOrdersDecides ==
    (call # None /\ CallIndex # 0) =>
        call.result = after_deadline(<<timelist.times[CallIndex]>>, call.season,
                                     call.year, call.time, call.msg)

C5_OthersAround ==
    /\ call # None
    /\ CallIndex = 2
    /\ Len(timelist.times) = 3
    /\ timelist.times[1].phase = "Retreat"
    /\ PyEq(PyStr(timelist.times[1].season), call.season)
    /\ PyEq(PyStr(timelist.times[1].year), call.year)
    /\ timelist.times[3].phase = "Orders"
    /\ PyEq(PyStr(timelist.times[3].season), call.season)
    /\ timelist.times[1].time < call.time
    /\ call.time < timelist.times[2].time
    /\ timelist.times[3].time < call.time
    /\ call.result = PyBool(FALSE)

---------------------------------------------------------------------------
(* C6: a direct call for a season and year the table holds no Orders       *)
(* record for ends in an error, and does not return a value to its caller. *)
C6_NoRecordRaises ==
    (call # None /\ CallIndex = 0) => (call.result # None /\ call.result.type # "bool")

---------------------------------------------------------------------------
(* C7: parsing a block that lacks a From:, Date: or CC: line raises out of *)
(* the parser and adds no Message for the block.                           *)
C7_MissingHeaderRaises ==
    [][(pc = "parse" /\ Len(msgs) < Len(texts) /\ LacksHeader(texts[Len(msgs) + 1]))
         => (pc' = "error" /\ raised' = "StopIteration" /\ msgs' = msgs)]_vars

C7_NoCcRaised ==
    /\ pc = "error"
    /\ raised = "StopIteration"
    /\ Len(msgs) = 1
    /\ Len(texts) = 2
    /\ ~HasHeader(texts[2], "cc:")
    /\ HasHeader(texts[2], "from:")
    /\ HasHeader(texts[2], "date:")

---------------------------------------------------------------------------
(* C8: the load fails, leaving no table, when a line that is not filtered  *)
(* does not consist of exactly 9 whitespace-separated tokens; and when     *)
(* every such line consists of 9 whitespace-separated tokens, the 8th an   *)
(* HH:MM time, the load yields one record per line, in file order.         *)
C8_NineTokens ==
    pc # "load" =>
        LET kept == SelectSeq(schedule, Kept)
        IN  /\ (\E i \in 1..Len(kept) : ~NineTokens(kept[i]))
                 => (pc = "error" /\ timelist = None)
            /\ (\A i \in 1..Len(kept) : RecordShaped(kept[i]))
                 => /\ pc = "parse"
                    /\ Len(timelist.times) = Len(kept)
                    /\ \A i \in 1..Len(kept) : timelist.times[i] = RecordOf(kept[i])

---------------------------------------------------------------------------
(* C9: lines that are empty or blank, or that are "Winter 1900" or         *)
(* "Fall 1905 Retreat", are skipped: the load ends as the load of the file *)
(* without them ends, with the same records in the same order or the same  *)
(* failure, and builds one record for every other line.                    *)
C9_FilteredLinesSkipped ==
    pc # "load" =>
        LET rest == SelectSeq(schedule, NotSkipped)
            alone == TimeList(rest)
        IN  /\ alone.ok <=> pc = "parse"
            /\ pc = "parse" => (timelist.times = alone.val /\ Len(timelist.times) = Len(rest))
            /\ pc = "error" => (raised = alone.exc /\ timelist = None)

C9_SkippedAmongRecords ==
    /\ pc = "parse"
    /\ Len(schedule) = 3
    /\ Skipped(schedule[1])
    /\ strip(schedule[2]) = "Fall 1905 Retreat"
    /\ Len(timelist.times) = 1

---------------------------------------------------------------------------
(* C10: parsing changes nothing but the list of messages: the table stays  *)
(* as loaded, equal blocks give equal messages, and the message of a block *)
(* is the one the block gives alone against the table as loaded, whatever  *)
(* was parsed before it.                                                   *)
C10_Pure ==
    [][pc = "parse" =>
         /\ timelist' = timelist
         /\ texts' = texts
         /\ \A i, j \in 1..Len(msgs') : texts[i] = texts[j] => msgs'[i] = msgs'[j]
         /\ \A i \in 1..Len(msgs') :
               Ok(msgs'[i]) = Message(texts[i], TimeList(schedule).val)]_vars

C10_SameBlockTwice ==
    /\ Len(msgs) = 2
    /\ texts[1] = texts[2]
    /\ msgs[1] = msgs[2]
    /\ timelist.times # <<>>

---------------------------------------------------------------------------
---------------------------------------------------------------------------
(* C12: the list handed to the parser holds every message block of every   *)
(* file exactly once, in file order, the last block of a file included     *)
(* when no separator follows it, with no empty block for a leading or      *)
(* doubled separator and no text of one file in a block of the next.       *)
C12_EveryBlockOnce ==
    pc # "walk" =>
        /\ Len(texts) = Len(AllBlocks(files))
        /\ \A i \in 1..Len(texts) : texts[i] = BlockText(AllBlocks(files)[i])

(* C13: the dataset cache is a memoization keyed by path and mode flags.   *)
(* Every call of _get_xy that returns (a) hands back the cached arrays     *)
(* without reading the feeds only if the cache was populated, path and     *)
(* binary equal the cached key and upsample is true; (b) leaves a          *)
(* populated cache holding exactly the arrays and key of the most recent   *)
(* upsample=True load; and (c) with upsample=False reads the feeds afresh, *)
(* whatever the cache holds, and changes none of cached_Xs, cached_Ys,     *)
(* cached_ptd, cached_binary.                                              *)
C13_Memoization ==
    [][ LET e == calls'[Len(calls')]
            reloaded == loads' = loads + 1
            upLoads == {k \in 1..Len(calls') : calls'[k].upsample /\ calls'[k].load # 0}
        IN  /\ Len(calls') = Len(calls) + 1
            /\ reloaded \/ loads' = loads
            /\ ~reloaded =>
                   /\ cached_Xs # None /\ cached_Ys # None
                   /\ cached_ptd = e.path /\ cached_binary = e.binary /\ e.upsample
                   /\ e.Xs = cached_Xs /\ e.Ys = cached_Ys
            /\ (cached_Xs' # None \/ cached_Ys' # None) =>
                   /\ upLoads # {}
                   /\ LET m == calls'[Max(upLoads)]
                      IN  /\ cached_Xs' = m.Xs /\ cached_Ys' = m.Ys
                          /\ cached_ptd' = m.path /\ cached_binary' = m.binary
            /\ ~e.upsample =>
                   /\ reloaded
                   /\ e.Xs = LoadXs(e.path, FALSE, loads')
                   /\ e.Ys = LoadYs(e.path, e.binary, FALSE, loads')
                   /\ UNCHANGED <<cached_Xs, cached_Ys, cached_ptd, cached_binary>>
      ]_vars

\* an upsample=False call of the cached key went to the feeds and the next
\* upsample=True call of that key was still served from the cache
C13_HitAfterPlainLoad ==
    /\ Len(calls) = 3
    /\ calls[1].upsample /\ calls[1].load = 1
    /\ ~calls[2].upsample /\ calls[2].load = 2
    /\ calls[2].path = calls[1].path /\ calls[2].binary = calls[1].binary
    /\ calls[3].load = 0 /\ calls[3].Xs = calls[1].Xs
    /\ cached_Xs = calls[1].Xs

(* C14: whenever a call _get_xy(path, binary, upsample) has returned,      *)
(* X_validation_set and Y_validation_set are populated and are the         *)
(* validation split of loading that same (path, binary, upsample), never   *)
(* the split an earlier call with another key left behind.                 *)
C14_ValidationOfReturned ==
    calls # <<>> =>
        LET e == calls[Len(calls)]
        IN  /\ X_validation_set # None
            /\ Y_validation_set # None
            /\ <<X_validation_set, Y_validation_set>>
                 = get_validation_set(e.path, e.binary, e.upsample)

====
